---- MODULE Spec2Model ----
(***************************************************************************)
(* State-machine model of the RetainAI front end: the service worker's     *)
(* fetch handler, the two notification views, the user context, the lead   *)
(* drawer, the team tab, the Tags control and the leads dashboard's        *)
(* keyboard focus.  Each component has its own next-state relation and     *)
(* specification over the shared variable tuple; the variables of the      *)
(* other components stay at their initial values.                          *)
(***************************************************************************)
EXTENDS Integers, Sequences, FiniteSets, TLC

VARIABLES
    cache,      \* service worker: the "retainai-v2" cache, URL -> response
    ev,         \* service worker: fetch events being handled, slot -> record
    comp,       \* notifications: the view in use, "center" (NotificationsCenter.js) or
                \* "page" (Notifications.jsx); "none" before the first mount
    inst,       \* notifications: view instances mounted so far; the live one is inst
    mounted,    \* notifications: the live instance's effects are set up
    notifs,     \* notifications: the list state of the live instance
    nerr,       \* notifications: the error state of the live instance
    srvRead,    \* notifications: the server's read flag of each notification
    loads,      \* notifications: list requests in flight, slot -> record
    marks,      \* notifications: mark-read operations in flight, slot -> record
    pollRef,    \* notifications: pollRef.current of each instance (0 = null)
    sseRef,     \* notifications: sseRef.current of each instance (0 = null)
    esState,    \* notifications: the EventSource each instance created
    timers,     \* notifications: the browser's interval timers, id -> record
    lastMark,   \* notifications: kind and outcome of the mark-read operation that just ended
    acked,      \* notifications: ids marked by the user whose request succeeded
    user,       \* user context: the user state ("" = null, "{}" = an empty object)
    uerr,       \* user context: the error state
    lsUser,     \* user context: localStorage "user" ("" = no entry)
    lsEmail,    \* user context: localStorage "userEmail" ("" = no entry)
    cookie,     \* user context: the user_email cookie ("" = none)
    ufetch,     \* user context: the user fetch in flight, of abortRef.current's controller
    signedOut,  \* user context: signOut ran and nobody has signed in since
    screen,     \* optimistic lists: the component on screen, "drawer" (LeadDrawer.jsx)
                \* or "team" (Settings.jsx TeamTab); "none" before it mounts
    reminders,  \* lead drawer: the reminders state
    updates,    \* lead drawer: the updates (notes) state
    err,        \* lead drawer: the err state
    srvLead,    \* lead drawer: the server's record of the lead in the leads list
    leadOps,    \* lead drawer: persistReminders / persistUpdates calls, slot -> record
    members,    \* team tab: the members state
    error,      \* team tab: the error state
    busyEmail,  \* team tab: the busyEmail state
    srvTeam,    \* team tab: the server's member list
    teamOps,    \* team tab: changeRole / removeMember calls, slot -> record
    teamLoad,   \* team tab: loadMembers in flight
    selected,   \* Tags: the selected prop, which the parent sets from onChange
    disabled,   \* Tags: the disabled prop
    readOnly,   \* Tags: the readOnly prop
    caseInsensitive,    \* Tags: the caseInsensitive prop
    onChangeCalls,      \* Tags: how often onChange has been called
    lastToggle,         \* Tags: how the latest handleToggle call ended
    focusIndex,     \* leads dashboard: the focusIndex state
    filteredLen,    \* leads dashboard: filteredLeads.length of the latest render
    boundLen,       \* leads dashboard: filteredLeads.length the attached key handler closed over
    effectsPending, \* leads dashboard: the latest render's effects have not run yet
    clamped,        \* leads dashboard: the bounds effect moved the index since the last input
    listView,   \* notification rows in full: the view holding the list, "none" before it mounts
    idShape,    \* notification rows in full: the field and type the server identifies rows by
    fullList    \* notification rows in full: the list state, every field normalize reads or writes

swVars == <<cache, ev>>
notifVars == <<comp, inst, mounted, notifs, nerr, srvRead, loads, marks,
               pollRef, sseRef, esState, timers, lastMark, acked>>
userVars == <<user, uerr, lsUser, lsEmail, cookie, ufetch, signedOut>>
leadVars == <<reminders, updates, err, srvLead, leadOps>>
teamVars == <<members, error, busyEmail, srvTeam, teamOps, teamLoad>>
optVars == <<screen, leadVars, teamVars>>
tagVars == <<selected, disabled, readOnly, caseInsensitive, onChangeCalls, lastToggle>>
dashVars == <<focusIndex, filteredLen, boundLen, effectsPending, clamped>>
listVars == <<listView, idShape, fullList>>
vars == <<swVars, notifVars, userVars, optVars, tagVars, dashVars, listVars>>
nonSW == <<notifVars, userVars, optVars, tagVars, dashVars, listVars>>
nonNotif == <<swVars, userVars, optVars, tagVars, dashVars, listVars>>
nonUser == <<swVars, notifVars, optVars, tagVars, dashVars, listVars>>
nonOpt == <<swVars, notifVars, userVars, tagVars, dashVars, listVars>>
nonTags == <<swVars, notifVars, userVars, optVars, dashVars, listVars>>
nonDash == <<swVars, notifVars, userVars, optVars, tagVars, listVars>>
nonList == <<swVars, notifVars, userVars, optVars, tagVars, dashVars>>

(***************************************************************************)
(* Bounds                                                                  *)
(***************************************************************************)
MaxEvents == 1      \* fetch events handled at the same time
MaxVer == 2         \* distinct bodies the network may serve for one URL
NumNotifs == 2      \* notifications the server holds
MaxMounts == 2      \* times a notifications view is mounted
MaxLoads == 1       \* list requests in flight at the same time
MaxMarks == 1       \* mark-read operations in flight at the same time
MaxLeadOps == 2     \* changes made in one lead drawer
MaxTeamOps == 2     \* changes made in one team tab
MaxCalls == 3       \* onChange calls counted
MaxPayload == 2     \* rows in one list response or stream message
MaxRows == 3        \* rows the notification list may hold
MaxLeads == 5       \* leads the filtered list may hold

(***************************************************************************)
(* Service worker (public/service-worker.js)                               *)
(***************************************************************************)
Urls == {"/", "/index.html", "/api/leads"}
PRECACHE == {"/", "/index.html"}

\* url.pathname.startsWith("/api/")
IsApi(url) == url = "/api/leads"

Resp(ok, status, type, ver) == [ok |-> ok, status |-> status, type |-> type, ver |-> ver]
NoResp == Resp(FALSE, 0, "undefined", 0)       \* undefined: no cache entry
Rejected == Resp(FALSE, 0, "rejected", 0)      \* the promise rejected
ResponseError == Resp(FALSE, 0, "error", 0)    \* Response.error()
Good(v) == Resp(TRUE, 200, "basic", v)
NetResponses ==
    {Good(v) : v \in 1..MaxVer}
        \cup {Resp(FALSE, 404, "basic", 0), Resp(TRUE, 204, "basic", 0),
              Resp(FALSE, 0, "opaque", 0)}

Req(method, scheme, url, range, nav) ==
    [method |-> method, scheme |-> scheme, url |-> url, range |-> range, nav |-> nav]
NoReq == Req("", "", "", FALSE, FALSE)
\* One request per path through the handler's early returns: an attribute the
\* handler never reads on that path is left at its default.
Requests ==
    {Req("POST", "https", "/", FALSE, FALSE),
     Req("GET", "chrome-extension", "/", FALSE, FALSE),
     Req("GET", "https", "/api/leads", FALSE, FALSE)}
        \cup {Req("GET", "https", u, TRUE, FALSE) : u \in Urls \ {"/api/leads"}}
        \cup {Req("GET", "https", u, FALSE, n) : u \in Urls \ {"/api/leads"}, n \in BOOLEAN}

EvSlots == 1..MaxEvents
Idle == [pc |-> "idle", req |-> NoReq, cached |-> NoResp, net |-> NoResp, answer |-> NoResp]

\* The branch of the fetch listener a request takes.
Route(req) ==
    IF req.method # "GET" THEN "pass"
    ELSE IF req.scheme \notin {"http", "https"} THEN "pass"
    ELSE IF IsApi(req.url) THEN "pass"
    ELSE IF req.range THEN "range"
    ELSE IF req.nav THEN "nav"
    ELSE "swr"

\* a slip: any ok response is stored
CacheableAnyOk(res) == res.ok

\* res && res.ok && res.status === 200 && res.type !== "opaque"
Cacheable(res) == res.ok /\ res.status = 200 /\ res.type # "opaque"

\* a plausible slip: network first, the cache only as the fallback
SwrRespondNetFirst(cached, net) == IF net # NoResp THEN net ELSE cached

\* return cached || net  (net = NoResp while the fetch is still pending)
SwrRespond(cached, net) == IF cached # NoResp THEN cached ELSE net

\* install: cache.addAll(PRECACHE), all or nothing, errors swallowed
Install ==
    /\ \E ok \in BOOLEAN, v \in 1..MaxVer :
        cache' = IF ok THEN [u \in Urls |-> IF u \in PRECACHE THEN Good(v) ELSE cache[u]]
                 ELSE cache
    /\ UNCHANGED <<ev, nonSW>>

\* The synchronous part of the fetch listener: classify the request and, when
\* it is handled, call respondWith and start what runs first.
FetchEvent(e, req) ==
    /\ ev[e].pc = "idle"
    /\ \A f \in EvSlots : f < e => ev[f].pc # "idle"    \* slots are interchangeable
    /\ LET r == Route(req) IN
        ev' = [ev EXCEPT ![e] =
                 [Idle EXCEPT !.req = req,
                              !.pc = CASE r = "pass" -> "pass"
                                       [] r = "swr" -> "match"
                                       [] OTHER -> "net"]]
    /\ UNCHANGED <<cache, nonSW>>

\* stale-while-revalidate: cache.match(req), then fetch(req) is started and
\* the promise given to respondWith settles at once when there is a cached entry
SwrMatch(e) ==
    /\ ev[e].pc = "match"
    /\ LET c == cache[ev[e].req.url] IN
        ev' = [ev EXCEPT ![e].pc = "net", ![e].cached = c,
                         ![e].answer = SwrRespond(c, NoResp)]
    /\ UNCHANGED <<cache, nonSW>>

\* fetch(req) resolves with res
NetResolve(e, res) ==
    /\ ev[e].pc = "net"
    /\ LET r == Route(ev[e].req) IN
        ev' = [ev EXCEPT
                 ![e].net = res,
                 ![e].answer = IF r = "swr" THEN SwrRespond(ev[e].cached, res) ELSE res,
                 ![e].pc = IF r = "swr" /\ Cacheable(res) THEN "put" ELSE "done"]
    /\ UNCHANGED <<cache, nonSW>>

\* fetch(req) rejects
NetReject(e) ==
    /\ ev[e].pc = "net"
    /\ LET r == Route(ev[e].req) IN
        ev' = [ev EXCEPT
                 ![e].net = Rejected,
                 ![e].answer =
                     CASE r = "swr" -> SwrRespond(ev[e].cached, ev[e].cached)
                       [] r = "nav" -> IF cache["/index.html"] # NoResp
                                       THEN cache["/index.html"] ELSE ResponseError
                       [] OTHER -> Rejected,
                 ![e].pc = "done"]
    /\ UNCHANGED <<cache, nonSW>>

\* cache.put(req, res.clone()) completes
CachePut(e) ==
    /\ ev[e].pc = "put"
    /\ cache' = [cache EXCEPT ![ev[e].req.url] = ev[e].net]
    /\ ev' = [ev EXCEPT ![e].pc = "done"]
    /\ UNCHANGED nonSW

\* the event is over and its slot is free again
Release(e) ==
    /\ ev[e].pc \in {"pass", "done"}
    /\ ev' = [ev EXCEPT ![e] = Idle]
    /\ UNCHANGED <<cache, nonSW>>

InitSW ==
    /\ cache = [u \in Urls |-> NoResp]
    /\ ev = [e \in EvSlots |-> Idle]

NextSW ==
    \/ Install
    \/ \E e \in EvSlots, req \in Requests : FetchEvent(e, req)
    \/ \E e \in EvSlots : SwrMatch(e)
    \/ \E e \in EvSlots, res \in NetResponses : NetResolve(e, res)
    \/ \E e \in EvSlots : NetReject(e)
    \/ \E e \in EvSlots : CachePut(e)
    \/ \E e \in EvSlots : Release(e)

(***************************************************************************)
(* Notification views (NotificationsCenter.js, Notifications.jsx)          *)
(***************************************************************************)
PollSafety == 60000     \* startPolling(60_000) beside an open stream
PollDefault == 20000    \* startPolling(interval = 20_000)

Ids == 1..NumNotifs
Views == 1..MaxMounts
TimerIds == 1..(MaxMounts + 1)
LoadSlots == 1..MaxLoads
MarkSlots == 1..MaxMarks

TsOf(i) == i
Row(i, r) == [id |-> i, ts |-> TsOf(i), read |-> r]
\* the server's list, oldest first
ServerRows(flags) == [i \in 1..NumNotifs |-> Row(i, flags[i])]

RECURSIVE Dedup(_, _)
Dedup(rows, seen) ==
    IF rows = <<>> THEN <<>>
    ELSE LET n == Head(rows) IN
         IF n.id \in seen THEN Dedup(Tail(rows), seen)
         ELSE <<n>> \o Dedup(Tail(rows), seen \cup {n.id})

RECURSIVE InsertDesc(_, _)
InsertDesc(sorted, n) ==
    IF sorted = <<>> THEN <<n>>
    ELSE IF Head(sorted).ts >= n.ts THEN <<Head(sorted)>> \o InsertDesc(Tail(sorted), n)
    ELSE <<n>> \o sorted

\* Array.prototype.sort by safeDate(b.timestamp) - safeDate(a.timestamp), stable
RECURSIVE SortDesc(_)
SortDesc(rows) ==
    IF rows = <<>> THEN <<>>
    ELSE InsertDesc(SortDesc(SubSeq(rows, 1, Len(rows) - 1)), rows[Len(rows)])

\* NotificationsCenter.js normalize: first row of each id, newest first
normalize(rows) == SortDesc(Dedup(rows, {}))
\* Notifications.jsx sortAndDedup: first row of each id, newest first
sortAndDedup(rows) == SortDesc(Dedup(rows, {}))
Norm(rows) == IF comp = "center" THEN normalize(rows) ELSE sortAndDedup(rows)

\* prev.map(n => ids has n.id ? {...n, read: r} : n)
SetRead(rows, ids, r) ==
    [i \in 1..Len(rows) |-> IF rows[i].id \in ids THEN [rows[i] EXCEPT !.read = r] ELSE rows[i]]
UnreadIds(rows) == {rows[i].id : i \in {j \in 1..Len(rows) : ~rows[j].read}}

NoTimer == [iv |-> 0, view |-> 0]
NoLoad == [pc |-> "idle", snap |-> [i \in Ids |-> FALSE]]
NoMark == [pc |-> "idle", kind |-> "", ids |-> {}]
NoOutcome == [kind |-> "", out |-> ""]
FreeMark == {m \in MarkSlots : marks[m].pc = "idle"}

FreeLoad == {l \in LoadSlots : loads[l].pc = "idle"}
MinOf(S) == CHOOSE x \in S : \A y \in S : x <= y

\* load(): the request is sent (setLoading(true); setError(""))
LoadStarted(ld) == [ld EXCEPT ![MinOf(FreeLoad)].pc = "sent"]

\* stopPolling(): clearInterval(pollRef.current); pollRef.current = null
TimersStopped(v) ==
    IF pollRef[v] # 0 THEN [timers EXCEPT ![pollRef[v]] = NoTimer] ELSE timers
StopPolling(v) ==
    /\ timers' = TimersStopped(v)
    /\ pollRef' = [pollRef EXCEPT ![v] = 0]

\* startPolling(interval): stopPolling(); pollRef.current = setInterval(() => load(), interval)
StartPolling(v, interval) ==
    LET stopped == TimersStopped(v)
        free == {t \in TimerIds : stopped[t].iv = 0}
    IN /\ free # {}
       /\ timers' = [stopped EXCEPT ![MinOf(free)] = [iv |-> interval, view |-> v]]
       /\ pollRef' = [pollRef EXCEPT ![v] = MinOf(free)]

\* a slip: the error handler leaves the slow safety poll in place
OnErrorNoPolling(v) == UNCHANGED <<timers, pollRef>>

\* es.onerror: startPolling()
OnErrorPolling(v) == StartPolling(v, PollDefault)

\* The view mounts for a signed-in user: the first load is sent, and the
\* stream effect opens an EventSource with the slow safety poll, or polls
\* at once where the browser has no EventSource.
Mount ==
    /\ ~mounted /\ inst < MaxMounts
    /\ comp' \in IF comp = "none" THEN {"center", "page"} ELSE {comp}
    /\ inst' = inst + 1
    /\ mounted' = TRUE
    /\ notifs' = <<>> /\ nerr' = "" /\ acked' = {} /\ lastMark' = NoOutcome
    /\ loads' = [[l \in LoadSlots |-> NoLoad] EXCEPT ![1].pc = "sent"]
    /\ marks' = [m \in MarkSlots |-> NoMark]
    /\ \E hasEventSource \in BOOLEAN :
        IF hasEventSource
        THEN /\ esState' = [esState EXCEPT ![inst'] = "open"]
             /\ sseRef' = [sseRef EXCEPT ![inst'] = inst']
             /\ StartPolling(inst', PollSafety)
        ELSE /\ StartPolling(inst', PollDefault)
             /\ UNCHANGED <<esState, sseRef>>
    /\ UNCHANGED <<srvRead, nonNotif>>

\* The effect cleanups: abort the first load, close sseRef.current, stopPolling().
\* Responses that arrive later find no mounted instance and change nothing.
Unmount ==
    /\ mounted
    /\ mounted' = FALSE
    /\ esState' = IF sseRef[inst] # 0 THEN [esState EXCEPT ![sseRef[inst]] = "closed"]
                  ELSE esState
    /\ sseRef' = [sseRef EXCEPT ![inst] = 0]
    /\ StopPolling(inst)
    /\ notifs' = <<>> /\ nerr' = "" /\ acked' = {} /\ lastMark' = NoOutcome
    /\ loads' = [l \in LoadSlots |-> NoLoad]
    /\ marks' = [m \in MarkSlots |-> NoMark]
    /\ UNCHANGED <<comp, inst, srvRead, nonNotif>>

\* es.onmessage: setNotifications(prev => normalize([...prev, ...rows]))
SseMessage(id) ==
    /\ mounted /\ esState[inst] = "open"
    /\ notifs' = Norm(notifs \o <<Row(id, srvRead[id])>>)
    /\ UNCHANGED <<comp, inst, mounted, nerr, srvRead, loads, marks, pollRef, sseRef,
                   esState, timers, lastMark, acked, nonNotif>>

\* es.onerror of the EventSource instance x created: es.close(); sseRef.current = null;
\* startPolling().  The handler stays attached to the object for good, so the
\* event is handled whenever it is delivered.
SseError(x) ==
    /\ esState[x] # "none"
    /\ esState' = [esState EXCEPT ![x] = "closed"]
    /\ sseRef' = [sseRef EXCEPT ![x] = 0]
    /\ OnErrorPolling(x)
    /\ UNCHANGED <<comp, inst, mounted, notifs, nerr, srvRead, loads, marks, lastMark, acked, nonNotif>>

\* The interval timer t fires: load().  The load of an instance that has
\* unmounted reaches no state.
Tick(t) ==
    /\ timers[t].iv # 0
    /\ IF mounted /\ timers[t].view = inst
       THEN /\ FreeLoad # {}
            /\ loads' = LoadStarted(loads)
            /\ nerr' = ""
       ELSE UNCHANGED <<loads, nerr>>
    /\ UNCHANGED <<comp, inst, mounted, notifs, srvRead, marks, pollRef, sseRef,
                   esState, timers, lastMark, acked, nonNotif>>

\* load() from the Refresh button or a "notifications:changed" event
Refresh ==
    /\ mounted /\ FreeLoad # {}
    /\ loads' = LoadStarted(loads)
    /\ nerr' = ""
    /\ UNCHANGED <<comp, inst, mounted, notifs, srvRead, marks, pollRef, sseRef,
                   esState, timers, lastMark, acked, nonNotif>>

\* the server answers GET /api/notifications/<email> with its current list
ServerList(l) ==
    /\ loads[l].pc = "sent"
    /\ loads' = [loads EXCEPT ![l] = [pc |-> "replied", snap |-> srvRead]]
    /\ UNCHANGED <<comp, inst, mounted, notifs, nerr, srvRead, marks, pollRef, sseRef,
                   esState, timers, lastMark, acked, nonNotif>>

\* load(): the response arrives: setNotifications(normalize(rows))
LoadOk(l) ==
    /\ loads[l].pc = "replied"
    /\ notifs' = Norm(ServerRows(loads[l].snap))
    /\ loads' = [loads EXCEPT ![l] = NoLoad]
    /\ UNCHANGED <<comp, inst, mounted, nerr, srvRead, marks, pollRef, sseRef,
                   esState, timers, lastMark, acked, nonNotif>>

\* load(): fetch rejects (not an abort)
LoadFail(l) ==
    /\ loads[l].pc \in {"sent", "replied"}
    /\ loads' = [loads EXCEPT ![l] = NoLoad]
    /\ nerr' = "Failed to load notifications."
    /\ notifs' = IF comp = "center" THEN <<>> ELSE notifs
    /\ UNCHANGED <<comp, inst, mounted, srvRead, marks, pollRef, sseRef,
                   esState, timers, lastMark, acked, nonNotif>>

\* "Mark as Read" on an unread notification: the optimistic update, then the
\* POST (Notifications.jsx: .../read; NotificationsCenter.js: .../<id>/mark_read)
MarkAsRead(m, id) ==
    /\ mounted /\ FreeMark # {} /\ m = MinOf(FreeMark)
    /\ id \in UnreadIds(notifs)
    /\ notifs' = SetRead(notifs, {id}, TRUE)
    /\ marks' = [marks EXCEPT ![m] = [pc |-> "sent", kind |-> "one", ids |-> {id}]]
    /\ lastMark' = NoOutcome
    /\ UNCHANGED <<comp, inst, mounted, nerr, srvRead, loads, pollRef, sseRef,
                   esState, timers, acked, nonNotif>>

\* "Mark all as read" while something is unread: every row is set read and
\* the unread ids are posted to .../read
MarkAllRead(m) ==
    /\ mounted /\ FreeMark # {} /\ m = MinOf(FreeMark)
    /\ UnreadIds(notifs) # {}
    /\ notifs' = SetRead(notifs, Ids, TRUE)
    /\ marks' = [marks EXCEPT ![m] =
                   [pc |-> "sent", kind |-> "all", ids |-> UnreadIds(notifs)]]
    /\ lastMark' = NoOutcome
    /\ UNCHANGED <<comp, inst, mounted, nerr, srvRead, loads, pollRef, sseRef,
                   esState, timers, acked, nonNotif>>

\* the server handles the POST: it records the ids as read and answers 2xx,
\* or refuses with a non-2xx status
ServerMark(m, ok) ==
    /\ marks[m].pc \in {"sent", "fb_sent"}
    /\ srvRead' = IF ok THEN [i \in Ids |-> srvRead[i] \/ i \in marks[m].ids] ELSE srvRead
    /\ marks' = [marks EXCEPT ![m].pc =
                   CASE marks[m].pc = "sent" /\ ok -> "ok"
                     [] marks[m].pc = "sent" /\ ~ok -> "http"
                     [] marks[m].pc = "fb_sent" /\ ok -> "fb_ok"
                     [] OTHER -> "fb_http"]
    /\ UNCHANGED <<comp, inst, mounted, notifs, nerr, loads, pollRef, sseRef,
                   esState, timers, lastMark, acked, nonNotif>>

\* ping("notifications:changed"): the listener of NotificationsCenter calls load()
Ping ==
    /\ FreeLoad # {}
    /\ loads' = LoadStarted(loads)
    /\ nerr' = ""

\* the operation is over with outcome out: "ok", "http" (non-2xx) or "net"
Finished(m, out) ==
    /\ marks' = [marks EXCEPT ![m] = NoMark]
    /\ lastMark' = [kind |-> marks[m].kind, out |-> out]
    /\ acked' = IF out = "ok" THEN acked \cup marks[m].ids ELSE acked

\* a slip: no revert in the catch block
PageRevertMissing(rows, ids) == rows

\* Notifications.jsx markAsRead, catch: prev.map(n => n.id === id ? {...n, read: false} : n)
PageRevert(rows, ids) == SetRead(rows, ids, FALSE)

\* fetch resolves with the server's response
MarkResponse(m) ==
    /\ marks[m].pc \in {"ok", "http", "fb_ok", "fb_http"}
    /\ IF comp = "page"
       THEN \* neither markAsRead nor markAllRead looks at the response
            /\ Finished(m, marks[m].pc)
            /\ UNCHANGED <<loads, nerr>>
       ELSE IF marks[m].kind = "one" /\ marks[m].pc = "http"
       THEN \* if (!res.ok) throw: the bulk endpoint is tried with the single id
            /\ marks' = [marks EXCEPT ![m].pc = "fb_sent"]
            /\ UNCHANGED <<loads, nerr, lastMark, acked>>
       ELSE \* the fallback's and markAllRead's responses are not looked at
            /\ Finished(m, IF marks[m].pc \in {"ok", "fb_ok"} THEN "ok" ELSE "http")
            /\ Ping
    /\ UNCHANGED <<comp, inst, mounted, notifs, srvRead, pollRef, sseRef,
                   esState, timers, nonNotif>>

\* fetch rejects: a network error, before or after the server handled the POST
MarkNetErr(m) ==
    /\ marks[m].pc \in {"sent", "ok", "http", "fb_sent", "fb_ok", "fb_http"}
    /\ IF comp = "page"
       THEN /\ Finished(m, "net")
            /\ notifs' = IF marks[m].kind = "one" THEN PageRevert(notifs, marks[m].ids)
                         ELSE notifs
            /\ UNCHANGED <<loads, nerr>>
       ELSE IF marks[m].kind = "one" /\ marks[m].pc \in {"sent", "ok", "http"}
       THEN /\ marks' = [marks EXCEPT ![m].pc = "fb_sent"]
            /\ UNCHANGED <<loads, nerr, notifs, lastMark, acked>>
       ELSE /\ Finished(m, "net")
            /\ Ping
            /\ UNCHANGED notifs
    /\ UNCHANGED <<comp, inst, mounted, srvRead, pollRef, sseRef,
                   esState, timers, nonNotif>>

InitNotif ==
    /\ comp = "none"
    /\ inst = 0 /\ mounted = FALSE
    /\ notifs = <<>> /\ nerr = "" /\ acked = {} /\ lastMark = NoOutcome
    /\ srvRead = [i \in Ids |-> FALSE]
    /\ loads = [l \in LoadSlots |-> NoLoad]
    /\ marks = [m \in MarkSlots |-> NoMark]
    /\ pollRef = [v \in Views |-> 0]
    /\ sseRef = [v \in Views |-> 0]
    /\ esState = [v \in Views |-> "none"]
    /\ timers = [t \in TimerIds |-> NoTimer]


(***************************************************************************)
(* User context (UserContext.jsx)                                          *)
(***************************************************************************)
Emails == {"ann@x.io", "bob@x.io"}
NoFetch == [pc |-> "idle", email |-> ""]

\* getCurrentEmail(): localStorage userEmail, else the cookie, else user.email
getCurrentEmail(storedEmail, cookieEmail, storedUser) ==
    IF storedEmail # "" THEN storedEmail
    ELSE IF cookieEmail # "" THEN cookieEmail
    ELSE IF storedUser \in Emails THEN storedUser
    ELSE ""

\* fetchUser() up to its first await, with the email getCurrentEmail() gave
\* and the "user" entry localStorage holds at the call.  Without an email it
\* sets the user to null and returns.  Otherwise it aborts abortRef.current
\* and sends a new request.  An aborted request that had not resolved rejects
\* with AbortError, which is ignored; one whose body was being read gets {}
\* from res.json().catch(() => ({})) and runs to its end with it.
fetchUser(email, storedUser) ==
    IF email = ""
    THEN /\ user' = ""
         /\ lsUser' = storedUser
         /\ UNCHANGED <<uerr, ufetch>>
    ELSE /\ ufetch' = [pc |-> "sent", email |-> email]
         /\ CASE ufetch.pc = "ok" -> user' = "{}" /\ lsUser' = "{}" /\ uerr' = ""
              [] ufetch.pc = "gone" -> user' = "" /\ lsUser' = "" /\ uerr' = "User fetch failed"
              [] ufetch.pc = "fail" -> user' = user /\ lsUser' = storedUser
                                       /\ uerr' = "User fetch failed"
              [] OTHER -> user' = user /\ lsUser' = storedUser /\ uerr' = ""

\* the provider mounts, or a storage, auth:changed or visibilitychange event
\* arrives, or refreshUser() is called
FetchUser ==
    /\ fetchUser(getCurrentEmail(lsEmail, cookie, lsUser), lsUser)
    /\ UNCHANGED <<lsEmail, cookie, signedOut, nonUser>>

\* a sign-in: the login flow stores the email (setUserEmail), the session
\* cookie may come with it, and "auth:changed" runs fetchUser()
SignIn(email, withCookie) ==
    /\ lsEmail' = email
    /\ cookie' = IF withCookie THEN email ELSE cookie
    /\ signedOut' = FALSE
    /\ fetchUser(email, lsUser)
    /\ UNCHANGED nonUser

\* signOut(): clear the local footprint, setUser(null), dispatch "auth:changed",
\* whose listener runs fetchUser()
signOut ==
    /\ lsEmail' = "" /\ cookie' = ""
    /\ signedOut' = TRUE
    /\ fetchUser(getCurrentEmail("", "", ""), "")
    /\ UNCHANGED nonUser

\* the response's head arrives: ok, 401/404 ("gone") or another failure
UserResponse(status) ==
    /\ ufetch.pc = "sent"
    /\ ufetch' = [ufetch EXCEPT !.pc = status]
    /\ UNCHANGED <<user, uerr, lsUser, lsEmail, cookie, signedOut, nonUser>>

\* res.json() resolves and fetchUser() runs to its end
UserFetched ==
    /\ ufetch.pc \in {"ok", "gone", "fail"}
    /\ ufetch' = NoFetch
    /\ CASE ufetch.pc = "ok" ->
              /\ user' = ufetch.email /\ lsUser' = ufetch.email /\ lsEmail' = ufetch.email
              /\ UNCHANGED uerr
         [] ufetch.pc = "gone" ->
              /\ user' = "" /\ lsUser' = "" /\ uerr' = "User fetch failed"
              /\ UNCHANGED lsEmail
         [] OTHER ->
              /\ uerr' = "User fetch failed"
              /\ UNCHANGED <<user, lsUser, lsEmail>>
    /\ UNCHANGED <<cookie, signedOut, nonUser>>

\* fetch rejects with a network error
UserNetErr ==
    /\ ufetch.pc = "sent"
    /\ ufetch' = NoFetch
    /\ uerr' = "Network error"
    /\ UNCHANGED <<user, lsUser, lsEmail, cookie, signedOut, nonUser>>

InitUser ==
    /\ user = "" /\ uerr = "" /\ lsUser = "" /\ lsEmail = "" /\ cookie = ""
    /\ ufetch = NoFetch
    /\ signedOut = FALSE

NextUser ==
    \/ FetchUser
    \/ \E email \in Emails, withCookie \in BOOLEAN : SignIn(email, withCookie)
    \/ signOut
    \/ \E status \in {"ok", "gone", "fail"} : UserResponse(status)
    \/ UserFetched
    \/ UserNetErr

(***************************************************************************)
(* Lead drawer (LeadDrawer.jsx), as the leads dashboard uses it: without   *)
(* an onUpdateLead prop, so every change goes through persistLeadsArray    *)
(***************************************************************************)
Texts == {"call", "mail"}
LeadOpSlots == 1..MaxLeadOps
Lead(rs, us, n) == [reminders |-> rs, updates |-> us, notes |-> n]
NoLeadOp ==
    [pc |-> "idle", field |-> "", prev |-> <<>>, next |-> <<>>, body |-> Lead(<<>>, <<>>, "")]
FreeLeadOp == {o \in LeadOpSlots : leadOps[o].pc = "idle"}

\* xs.filter((_, idx) => idx !== i)
RemoveAt(xs, i) == SubSeq(xs, 1, i - 1) \o SubSeq(xs, i + 1, Len(xs))

\* the mutateFn of persistReminders / persistUpdates on the lead read from
\* the server; lastNote is the last entry of nextUpdates
Mutated(l, field, next) ==
    IF field = "reminders" THEN [l EXCEPT !.reminders = next]
    ELSE [l EXCEPT !.updates = next,
                   !.notes = IF next # <<>> THEN next[Len(next)] ELSE l.notes]

\* what persistLeadsArray can throw before the POST is sent, and after
LeadErrors(pc) ==
    CASE pc = "get" -> {"Missing user email", "Failed to load leads", "Lead not found",
                        "Failed to fetch"}
      [] pc = "refused" -> {"Failed to save leads"}
      [] OTHER -> {"Failed to fetch"}

\* e.message || fallback
ErrText(message, fallback) == IF message # "" THEN message ELSE fallback

\* persistReminders(nextReminders): prev = reminders; setReminders(next);
\* setErr(""); persistLeadsArray sends its GET
persistReminders(o, next) ==
    /\ screen = "drawer" /\ FreeLeadOp # {} /\ o = MinOf(FreeLeadOp)
    /\ reminders' = next
    /\ err' = ""
    /\ leadOps' = [leadOps EXCEPT ![o] =
                     [NoLeadOp EXCEPT !.pc = "get", !.field = "reminders",
                                      !.prev = reminders, !.next = next]]
    /\ UNCHANGED <<screen, updates, srvLead, teamVars, nonOpt>>

\* persistUpdates(nextUpdates)
persistUpdates(o, next) ==
    /\ screen = "drawer" /\ FreeLeadOp # {} /\ o = MinOf(FreeLeadOp)
    /\ updates' = next
    /\ err' = ""
    /\ leadOps' = [leadOps EXCEPT ![o] =
                     [NoLeadOp EXCEPT !.pc = "get", !.field = "updates",
                                      !.prev = updates, !.next = next]]
    /\ UNCHANGED <<screen, reminders, srvLead, teamVars, nonOpt>>

addReminder(o, t) == persistReminders(o, Append(reminders, t))
removeReminder(o, i) == i \in 1..Len(reminders) /\ persistReminders(o, RemoveAt(reminders, i))
addNote(o, t) == persistUpdates(o, <<t>> \o updates)
removeNote(o, i) == i \in 1..Len(updates) /\ persistUpdates(o, RemoveAt(updates, i))

\* persistLeadsArray: the GET is answered with the server's list; the lead is
\* found, copied and mutated, and the whole list is posted back
LeadsLoaded(o) ==
    /\ leadOps[o].pc = "get"
    /\ leadOps' = [leadOps EXCEPT
                     ![o].pc = "post",
                     ![o].body = Mutated(srvLead, leadOps[o].field, leadOps[o].next)]
    /\ UNCHANGED <<screen, reminders, updates, err, srvLead, teamVars, nonOpt>>

\* the server handles the POST: it stores the posted list, or refuses
ServerSave(o, ok) ==
    /\ leadOps[o].pc = "post"
    /\ srvLead' = IF ok THEN leadOps[o].body ELSE srvLead
    /\ leadOps' = [leadOps EXCEPT ![o].pc = IF ok THEN "saved" ELSE "refused"]
    /\ UNCHANGED <<screen, reminders, updates, err, teamVars, nonOpt>>

\* save.ok: persistLeadsArray returns and the operation is over
LeadSaved(o) ==
    /\ leadOps[o].pc = "saved"
    /\ leadOps' = [leadOps EXCEPT ![o].pc = "done"]
    /\ UNCHANGED <<screen, reminders, updates, err, srvLead, teamVars, nonOpt>>

\* a slip: the catch block only reports
LeadRollbackMissing(prev, shown) == shown

\* setReminders(prev) / setUpdates(prev)
LeadRollback(prev, shown) == prev

\* persistLeadsArray throws or a fetch rejects: the catch block of
\* persistReminders / persistUpdates
LeadFail(o, message) ==
    /\ leadOps[o].pc \in {"get", "post", "saved", "refused"}
    /\ message \in LeadErrors(leadOps[o].pc)
    /\ leadOps' = [leadOps EXCEPT ![o].pc = "failed"]
    /\ IF leadOps[o].field = "reminders"
       THEN /\ err' = ErrText(message, "Failed to persist reminders")
            /\ reminders' = LeadRollback(leadOps[o].prev, reminders)
            /\ UNCHANGED updates
       ELSE /\ err' = ErrText(message, "Failed to persist notes")
            /\ updates' = LeadRollback(leadOps[o].prev, updates)
            /\ UNCHANGED reminders
    /\ UNCHANGED <<screen, srvLead, teamVars, nonOpt>>

\* the drawer opens on a lead: useState(lead?.reminders || []), useState(migrateNotesToUpdates(lead))
MountLeadDrawer ==
    /\ screen = "none"
    /\ screen' = "drawer"
    /\ UNCHANGED <<leadVars, teamVars, nonOpt>>

InitLead ==
    /\ reminders = <<"call">> /\ updates = <<>> /\ err = ""
    /\ srvLead = Lead(<<"call">>, <<>>, "")
    /\ leadOps = [o \in LeadOpSlots |-> NoLeadOp]

NextLead ==
    \/ MountLeadDrawer
    \/ \E o \in LeadOpSlots, t \in Texts : addReminder(o, t)
    \/ \E o \in LeadOpSlots, i \in 1..(MaxLeadOps + 1) : removeReminder(o, i)
    \/ \E o \in LeadOpSlots, t \in Texts : addNote(o, t)
    \/ \E o \in LeadOpSlots, i \in 1..(MaxLeadOps + 1) : removeNote(o, i)
    \/ \E o \in LeadOpSlots : LeadsLoaded(o)
    \/ \E o \in LeadOpSlots, ok \in BOOLEAN : ServerSave(o, ok)
    \/ \E o \in LeadOpSlots : LeadSaved(o)
    \/ \E o \in LeadOpSlots, message \in LeadErrors("get") \cup LeadErrors("refused") :
          LeadFail(o, message)

(***************************************************************************)
(* Team tab (Settings.jsx, TeamTab)                                        *)
(***************************************************************************)
OwnerEmail == "owner@x.io"
TeamEmails == {OwnerEmail, "ann@x.io", "bob@x.io"}
Roles == {"owner", "manager", "member"}
Member(email, role) == [email |-> email, role |-> role]
TeamOpSlots == 1..MaxTeamOps
NoTeamOp == [pc |-> "idle", kind |-> "", email |-> "", role |-> "", prev |-> <<>>]
FreeTeamOp == {o \in TeamOpSlots : teamOps[o].pc = "idle"}
Shown(ms) == {ms[i].email : i \in 1..Len(ms)}

\* ms.map(m => (m.email === email ? { ...m, role } : m))
WithRole(ms, email, role) ==
    [i \in 1..Len(ms) |-> IF ms[i].email = email THEN [ms[i] EXCEPT !.role = role] ELSE ms[i]]

\* ms.filter(m => m.email !== email)
Without(ms, email) == LET Keep(m) == m.email # email IN SelectSeq(ms, Keep)

\* loadMembers(): setLoading(true); setError(""); the GET is sent
loadMembers ==
    /\ screen = "team" /\ teamLoad = "idle"
    /\ teamLoad' = "sent"
    /\ error' = ""
    /\ UNCHANGED <<screen, members, busyEmail, srvTeam, teamOps, leadVars, nonOpt>>

\* loadMembers(): the response, or the failure of the request
MembersLoaded(ok) ==
    /\ teamLoad = "sent"
    /\ teamLoad' = "idle"
    /\ members' = IF ok THEN srvTeam ELSE <<>>
    /\ error' = IF ok THEN error ELSE "Failed to load team members."
    /\ UNCHANGED <<screen, busyEmail, srvTeam, teamOps, leadVars, nonOpt>>

\* changeRole(email, role) from the select of a row that is not disabled
changeRole(o, email, role) ==
    /\ screen = "team" /\ FreeTeamOp # {} /\ o = MinOf(FreeTeamOp)
    /\ email \in Shown(members) /\ email # OwnerEmail /\ email # busyEmail
    /\ \E i \in 1..Len(members) : members[i].email = email /\ members[i].role # role
    /\ busyEmail' = email
    /\ error' = ""
    /\ members' = WithRole(members, email, role)
    /\ teamOps' = [teamOps EXCEPT ![o] =
                     [pc |-> "sent", kind |-> "role", email |-> email, role |-> role,
                      prev |-> members]]
    /\ UNCHANGED <<screen, srvTeam, teamLoad, leadVars, nonOpt>>

\* removeMember(email), confirmed, from the button of a row that is not disabled
removeMember(o, email) ==
    /\ screen = "team" /\ FreeTeamOp # {} /\ o = MinOf(FreeTeamOp)
    /\ email \in Shown(members) /\ email # OwnerEmail /\ email # busyEmail
    /\ busyEmail' = email
    /\ error' = ""
    /\ members' = Without(members, email)
    /\ teamOps' = [teamOps EXCEPT ![o] =
                     [pc |-> "sent", kind |-> "remove", email |-> email, role |-> "",
                      prev |-> members]]
    /\ UNCHANGED <<screen, srvTeam, teamLoad, leadVars, nonOpt>>

\* the server handles POST /api/team/role or /api/team/remove, or refuses
ServerTeam(o, ok) ==
    /\ teamOps[o].pc = "sent"
    /\ srvTeam' = IF ~ok THEN srvTeam
                  ELSE IF teamOps[o].kind = "role"
                  THEN WithRole(srvTeam, teamOps[o].email, teamOps[o].role)
                  ELSE Without(srvTeam, teamOps[o].email)
    /\ teamOps' = [teamOps EXCEPT ![o].pc = IF ok THEN "ok" ELSE "refused"]
    /\ UNCHANGED <<screen, members, error, busyEmail, teamLoad, leadVars, nonOpt>>

\* setMembers(prev)
TeamRollback(prev, shown) == prev

\* the catch and finally blocks of changeRole / removeMember
TeamCatch(o) ==
    /\ teamOps' = [teamOps EXCEPT ![o].pc = "failed"]
    /\ error' = IF teamOps[o].kind = "role"
                THEN "Could not change role. Ensure /api/team/role exists on backend."
                ELSE "Could not remove. Ensure /api/team/remove exists on backend."
    /\ members' = TeamRollback(teamOps[o].prev, members)
    /\ busyEmail' = ""

\* the response arrives: res.ok ends the operation, anything else throws
TeamResponse(o) ==
    /\ teamOps[o].pc \in {"ok", "refused"}
    /\ IF teamOps[o].pc = "ok"
       THEN /\ teamOps' = [teamOps EXCEPT ![o].pc = "done"]
            /\ busyEmail' = ""
            /\ UNCHANGED <<members, error>>
       ELSE TeamCatch(o)
    /\ UNCHANGED <<screen, srvTeam, teamLoad, leadVars, nonOpt>>

\* fetch rejects: a network error, before or after the server handled the POST
TeamNetErr(o) ==
    /\ teamOps[o].pc \in {"sent", "ok", "refused"}
    /\ TeamCatch(o)
    /\ UNCHANGED <<screen, srvTeam, teamLoad, leadVars, nonOpt>>

\* the tab mounts: useState([]) and the effect's first loadMembers()
MountTeamTab ==
    /\ screen = "none"
    /\ screen' = "team"
    /\ teamLoad' = "sent"
    /\ error' = ""
    /\ UNCHANGED <<members, busyEmail, srvTeam, teamOps, leadVars, nonOpt>>

InitTeam ==
    /\ members = <<>> /\ error = "" /\ busyEmail = ""
    /\ srvTeam = <<Member(OwnerEmail, "owner"), Member("ann@x.io", "manager"),
                   Member("bob@x.io", "member")>>
    /\ teamOps = [o \in TeamOpSlots |-> NoTeamOp]
    /\ teamLoad = "idle"

NextTeam ==
    \/ MountTeamTab
    \/ loadMembers
    \/ \E ok \in BOOLEAN : MembersLoaded(ok)
    \/ \E o \in TeamOpSlots, email \in TeamEmails, role \in Roles : changeRole(o, email, role)
    \/ \E o \in TeamOpSlots, email \in TeamEmails : removeMember(o, email)
    \/ \E o \in TeamOpSlots, ok \in BOOLEAN : ServerTeam(o, ok)
    \/ \E o \in TeamOpSlots : TeamResponse(o)
    \/ \E o \in TeamOpSlots : TeamNetErr(o)

InitOpt == screen = "none" /\ InitLead /\ InitTeam
NextOpt == NextLead \/ NextTeam

(***************************************************************************)
(* Tags control (Tags.jsx) under a parent that stores what onChange gets   *)
(***************************************************************************)
TagNames == {"vip", "VIP", "new"}

\* String.prototype.toLowerCase on the tag names
Lower(s) == IF s = "VIP" THEN "vip" ELSE s

\* Array.from(new Set(xs.map(String))): the first occurrence of each string
RECURSIVE Uniq(_, _)
Uniq(xs, seen) ==
    IF xs = <<>> THEN <<>>
    ELSE IF Head(xs) \in seen THEN Uniq(Tail(xs), seen)
    ELSE <<Head(xs)>> \o Uniq(Tail(xs), seen \cup {Head(xs)})

selectedSet(sel, ci) == {IF ci THEN Lower(sel[i]) ELSE sel[i] : i \in 1..Len(sel)}
isSelected(tag, sel, ci) ==
    IF ci THEN Lower(tag) \in selectedSet(sel, ci) ELSE tag \in selectedSet(sel, ci)

\* a slip: only disabled is looked at
LockedWhenDisabled(d, r) == d

\* if (disabled || readOnly) return;
Locked(d, r) == d \/ r

\* the array handleToggle passes to onChange
Toggled(tag, sel, ci) ==
    IF ~isSelected(tag, sel, ci)
    THEN Uniq(Append(sel, tag), {})
    ELSE LET Keep(t) == IF ci THEN Lower(t) # Lower(tag) ELSE t # tag
         IN SelectSeq(sel, Keep)

\* handleToggle(tag); the parent's onChange stores the array as the next
\* selected prop
handleToggle(tag) ==
    /\ IF Locked(disabled, readOnly)
       THEN /\ lastToggle' = "returned"
            /\ UNCHANGED <<selected, onChangeCalls>>
       ELSE /\ onChangeCalls < MaxCalls
            /\ selected' = Toggled(tag, selected, caseInsensitive)
            /\ onChangeCalls' = onChangeCalls + 1
            /\ lastToggle' = "called"
    /\ UNCHANGED <<disabled, readOnly, caseInsensitive, nonTags>>

\* the parent renders the control with other flags
SetProps(d, r, ci) ==
    /\ <<d, r, ci>> # <<disabled, readOnly, caseInsensitive>>
    /\ disabled' = d /\ readOnly' = r /\ caseInsensitive' = ci
    /\ lastToggle' = "none"
    /\ UNCHANGED <<selected, onChangeCalls, nonTags>>

\* callers may pass duplicates in selected
InitTags ==
    /\ selected = <<"new", "new">>
    /\ disabled = FALSE /\ readOnly = FALSE /\ caseInsensitive = FALSE
    /\ onChangeCalls = 0
    /\ lastToggle = "none"

NextTags ==
    \/ \E tag \in TagNames : handleToggle(tag)
    \/ \E d \in BOOLEAN, r \in BOOLEAN, ci \in BOOLEAN : SetProps(d, r, ci)

(***************************************************************************)
(* Leads dashboard (LeadsDashboard.jsx): keyboard focus                    *)
(***************************************************************************)
Min(a, b) == IF a <= b THEN a ELSE b
Max(a, b) == IF a >= b THEN a ELSE b

\* Math.min((i < 0 ? -1 : i) + 1, filteredLeads.length - 1)
ArrowDownIndex(i, n) == Min((IF i < 0 THEN -1 ELSE i) + 1, n - 1)
\* Math.max(i - 1, 0)
ArrowUpIndex(i) == Max(i - 1, 0)

\* a slip: an index equal to the length passes
ClampIndexAbove(i, n) == IF i > n THEN n - 1 ELSE i

\* if (focusIndex >= filteredLeads.length) setFocusIndex(filteredLeads.length - 1)
ClampIndex(i, n) == IF i >= n THEN n - 1 ELSE i

\* keydown ArrowDown outside an input, handled by the attached listener; a
\* changed index renders again and leaves that render's effects pending
ArrowDown ==
    /\ focusIndex' = ArrowDownIndex(focusIndex, boundLen)
    /\ effectsPending' = (effectsPending \/ focusIndex' # focusIndex)
    /\ clamped' = FALSE
    /\ UNCHANGED <<filteredLen, boundLen, nonDash>>

\* keydown ArrowUp outside an input
ArrowUp ==
    /\ focusIndex' = ArrowUpIndex(focusIndex)
    /\ effectsPending' = (effectsPending \/ focusIndex' # focusIndex)
    /\ clamped' = FALSE
    /\ UNCHANGED <<filteredLen, boundLen, nonDash>>

\* leads or a filter change and the render computes a list of n leads
ListChanged(n) ==
    /\ n # filteredLen
    /\ filteredLen' = n
    /\ effectsPending' = TRUE
    /\ clamped' = FALSE
    /\ UNCHANGED <<focusIndex, boundLen, nonDash>>

\* the effects of the latest render run: the bounds effect, and the keyboard
\* effect, which attaches a listener closed over this render's list
RunEffects ==
    /\ effectsPending
    /\ focusIndex' = ClampIndex(focusIndex, filteredLen)
    /\ boundLen' = filteredLen
    /\ effectsPending' = (focusIndex' # focusIndex)
    /\ clamped' = (clamped \/ focusIndex' # focusIndex)
    /\ UNCHANGED <<filteredLen, nonDash>>

\* mounted with no leads yet, the first effects done
InitDash ==
    /\ focusIndex = -1 /\ filteredLen = 0 /\ boundLen = 0
    /\ effectsPending = FALSE /\ clamped = FALSE

NextDash ==
    \/ ArrowDown
    \/ ArrowUp
    \/ \E n \in 0..MaxLeads : ListChanged(n)
    \/ RunEffects

(***************************************************************************)
(* Notification rows in full (NotificationsCenter.js normalize,            *)
(* Notifications.jsx sortAndDedup).  The sections above keep of a row its  *)
(* id, its time and its read flag, which is all there is to a row when the *)
(* server names it by a string in the id field.  Here a row has every      *)
(* field the two functions read or write, and an identifier is a JSON      *)
(* value with its type: a number and the string of its digits are          *)
(* different keys of a Set and different operands of ===.                  *)
(***************************************************************************)
Null == [t |-> "null", v |-> <<>>]
Num(digits) == [t |-> "num", v |-> <<digits>>]
Str(parts) == [t |-> "str", v |-> parts]

\* String(x): the decimal text of a number, a string as it is
String(x) == [t |-> "str", v |-> x.v]
\* a ?? b
Nullish(a, b) == IF a # Null THEN a ELSE b

\* the decimal text of a small number (template literals, JSON numbers)
Text(k) == <<"0", "1", "2", "3", "4", "5", "6", "7", "8", "9">>[k + 1]

\* new Date().toISOString() at the time of the call; the clock stands still
NowText == "2024-01-03"
\* safeDate(v).getTime(): Date.parse(v) in days, 0 when it is not a date
safeDate(v) ==
    CASE v = "2024-01-01" -> 1
      [] v = "2024-01-02" -> 2
      [] v = "2024-01-03" -> 3
      [] OTHER -> 0

\* The rows the server can send.  Notification i has the identifier i, as a
\* number or a string, in the field the server uses, or in none; the first
\* notification is dated, the second has no timestamp, any further one has a
\* text that is no date.
IdFields == {"id", "_id", "uuid", "none"}
IdTypes == {"num", "str"}
FeedTs(i) == CASE i = 1 -> "2024-01-01" [] i = 2 -> "" [] OTHER -> "soon"
FeedId(i, type) == IF type = "num" THEN Num(Text(i)) ELSE Str(<<Text(i)>>)
FeedRow(i, shape) ==
    [id |-> IF shape.field = "id" THEN FeedId(i, shape.type) ELSE Null,
     _id |-> IF shape.field = "_id" THEN FeedId(i, shape.type) ELSE Null,
     uuid |-> IF shape.field = "uuid" THEN FeedId(i, shape.type) ELSE Null,
     timestamp |-> FeedTs(i),
     subject |-> "Follow up",
     title |-> "Follow up",
     read |-> FALSE]
Payloads(shape, least) ==
    UNION {[1..k -> {FeedRow(i, shape) : i \in Ids}] : k \in least..MaxPayload}

\* rows.sort((a, b) => safeDate(b.timestamp) - safeDate(a.timestamp)), stable
RECURSIVE InsertNewest(_, _)
InsertNewest(sorted, n) ==
    IF sorted = <<>> THEN <<n>>
    ELSE IF safeDate(Head(sorted).timestamp) >= safeDate(n.timestamp)
    THEN <<Head(sorted)>> \o InsertNewest(Tail(sorted), n)
    ELSE <<n>> \o sorted
RECURSIVE SortNewest(_)
SortNewest(rows) ==
    IF rows = <<>> THEN <<>>
    ELSE InsertNewest(SortNewest(SubSeq(rows, 1, Len(rows) - 1)), rows[Len(rows)])

\* normalize: n.id ?? n._id ?? n.uuid ?? `${n.timestamp || ""}|${n.subject || ""}|${idx}`
CenterId(n, idx) ==
    Nullish(n.id, Nullish(n._id, Nullish(n.uuid,
        Str(<<n.timestamp, "|", n.subject, "|", Text(idx)>>))))

\* the row normalize pushes: { ...n, read, _id: String(id), subject, message,
\* timestamp, lead_email }
CenterRow(n, id) ==
    [n EXCEPT !._id = String(id),
              !.subject = IF n.subject # "" THEN n.subject ELSE "-",
              !.timestamp = IF n.timestamp # "" THEN n.timestamp ELSE NowText]

\* normalize, the forEach: the first row of each id, idx counted from 0
RECURSIVE CenterDedup(_, _, _)
CenterDedup(rows, pos, seen) ==
    IF pos > Len(rows) THEN <<>>
    ELSE LET n == rows[pos]
             id == CenterId(n, pos - 1)
         IN IF id \in seen THEN CenterDedup(rows, pos + 1, seen)
            ELSE <<CenterRow(n, id)>> \o CenterDedup(rows, pos + 1, seen \cup {id})

\* NotificationsCenter.js normalize(rows)
normalizeFull(rows) == SortNewest(CenterDedup(rows, 1, {}))

\* sortAndDedup: n.id || `${n.timestamp || ""}|${n.title || ""}`
PageKey(n) == IF n.id # Null THEN n.id ELSE Str(<<n.timestamp, "|", n.title>>)

\* the row sortAndDedup pushes: { id: n.id || key, type, title, message,
\* timestamp, read, leadId, leadName }
PageRow(n, key) ==
    [id |-> key,
     title |-> IF n.title # "" THEN n.title ELSE "Notification",
     timestamp |-> IF n.timestamp # "" THEN n.timestamp ELSE NowText,
     read |-> n.read]

\* sortAndDedup, the for loop: the first row of each key
RECURSIVE PageDedup(_, _)
PageDedup(items, seen) ==
    IF items = <<>> THEN <<>>
    ELSE LET n == Head(items)
             key == PageKey(n)
         IN IF key \in seen THEN PageDedup(Tail(items), seen)
            ELSE <<PageRow(n, key)>> \o PageDedup(Tail(items), seen \cup {key})

\* Notifications.jsx sortAndDedup(items)
sortAndDedupFull(items) == SortNewest(PageDedup(items, {}))

NormFull(rows) == IF listView = "center" THEN normalizeFull(rows) ELSE sortAndDedupFull(rows)

\* what the view keys its rows by and marks them by: key={notif._id},
\* n._id === notif._id; key={n.id}, n.id === id
RowIdent(n) == IF listView = "center" THEN n._id ELSE n.id

\* a view mounts against a server that names its rows in one way
ShowList(view, field, type) ==
    /\ listView = "none"
    /\ field = "none" => type = "str"
    /\ listView' = view
    /\ idShape' = [field |-> field, type |-> type]
    /\ fullList' = <<>>
    /\ UNCHANGED nonList

\* load(): the response carries rows
ListLoaded(rows) ==
    /\ listView # "none"
    /\ fullList' = NormFull(rows)
    /\ UNCHANGED <<listView, idShape, nonList>>

\* load(): the request fails; NotificationsCenter.js clears the list
ListLoadFailed ==
    /\ listView # "none"
    /\ fullList' = IF listView = "center" THEN <<>> ELSE fullList
    /\ UNCHANGED <<listView, idShape, nonList>>

\* es.onmessage: normalize([...prev, ...rows]) / sortAndDedup([...prev, ...rows])
StreamRows(rows) ==
    /\ listView # "none"
    /\ Len(NormFull(fullList \o rows)) <= MaxRows
    /\ fullList' = NormFull(fullList \o rows)
    /\ UNCHANGED <<listView, idShape, nonList>>

\* markAsRead on row k, the optimistic update: every row with that row's
\* identifier is set read
RowMarked(k) ==
    /\ listView # "none"
    /\ k \in 1..Len(fullList) /\ ~fullList[k].read
    /\ fullList' = [i \in 1..Len(fullList) |->
                      IF RowIdent(fullList[i]) = RowIdent(fullList[k])
                      THEN [fullList[i] EXCEPT !.read = TRUE] ELSE fullList[i]]
    /\ UNCHANGED <<listView, idShape, nonList>>

InitList ==
    /\ listView = "none"
    /\ idShape = [field |-> "none", type |-> "str"]
    /\ fullList = <<>>

NextList ==
    \/ \E view \in {"center", "page"}, field \in IdFields, type \in IdTypes :
          ShowList(view, field, type)
    \/ \E rows \in Payloads(idShape, 0) : ListLoaded(rows)
    \/ ListLoadFailed
    \/ \E rows \in Payloads(idShape, 1) : StreamRows(rows)
    \/ \E k \in 1..MaxRows : RowMarked(k)

(***************************************************************************)
(* Specifications                                                          *)
(***************************************************************************)
\* the stream, the timers and the reloads of a view nobody clicks in
NextNotifPoll ==
    \/ Mount
    \/ Unmount
    \/ \E id \in Ids : SseMessage(id)
    \/ \E x \in Views : SseError(x)
    \/ \E t \in TimerIds : Tick(t)
    \/ Refresh
    \/ \E l \in LoadSlots : ServerList(l)
    \/ \E l \in LoadSlots : LoadOk(l)
    \/ \E l \in LoadSlots : LoadFail(l)

\* marking as read beside the reloads; a timer's load() is a Refresh here
NextNotifMark ==
    \/ Mount
    \/ Unmount
    \/ \E id \in Ids : SseMessage(id)
    \/ Refresh
    \/ \E l \in LoadSlots : ServerList(l)
    \/ \E l \in LoadSlots : LoadOk(l)
    \/ \E l \in LoadSlots : LoadFail(l)
    \/ \E m \in MarkSlots, id \in Ids : MarkAsRead(m, id)
    \/ \E m \in MarkSlots : MarkAllRead(m)
    \/ \E m \in MarkSlots, ok \in BOOLEAN : ServerMark(m, ok)
    \/ \E m \in MarkSlots : MarkResponse(m)
    \/ \E m \in MarkSlots : MarkNetErr(m)

Init ==
    InitSW /\ InitNotif /\ InitUser /\ InitOpt /\ InitTags /\ InitDash /\ InitList

SpecSW == Init /\ [][NextSW]_vars
SpecNotifPoll == Init /\ [][NextNotifPoll]_vars
SpecNotifMark == Init /\ [][NextNotifMark]_vars
SpecUser == Init /\ [][NextUser]_vars
SpecOpt == Init /\ [][NextOpt]_vars
SpecTags == Init /\ [][NextTags]_vars
SpecDash == Init /\ [][NextDash]_vars
SpecList == Init /\ [][NextList]_vars
\* setInterval keeps firing its callback for as long as the timer is active
FairSpecNotifPoll == SpecNotifPoll /\ WF_vars(\E t \in TimerIds : Tick(t))

(***************************************************************************)
(* Service worker: properties                                              *)
(***************************************************************************)
C1_Answer ==
    \A e \in EvSlots :
        (Route(ev[e].req) = "swr" /\ ev[e].pc \in {"net", "put", "done"}) =>
            /\ ev[e].cached # NoResp => ev[e].answer = ev[e].cached
            /\ (ev[e].cached = NoResp /\ ev[e].net \notin {NoResp, Rejected})
                   => ev[e].answer = ev[e].net

C1_Step ==
    \A e \in EvSlots :
        Route(ev[e].req) = "swr" =>
            \* the fetch is started whether or not there was a cached entry
            /\ (ev[e].pc = "match" /\ ev'[e].pc # "match") => ev'[e].pc = "net"
            \* a successful result goes to cache.put ...
            /\ (ev[e].pc = "net" /\ ev'[e].pc # "net" /\ Cacheable(ev'[e].net))
                   => ev'[e].pc = "put"
            \* ... which replaces the entry of that request
            /\ (ev[e].pc = "put" /\ ev'[e].pc # "put")
                   => cache'[ev[e].req.url] = ev[e].net

C12_Entries ==
    \A u \in Urls :
        cache[u] # NoResp =>
            /\ ~IsApi(u)
            /\ cache[u].ok /\ cache[u].status = 200 /\ cache[u].type # "opaque"

\* a step other than the install handler's that changes an entry is the put
\* of a fetch event: the entry is that event's request, and the response is
\* the one its fetch resolved with
C12_Step ==
    ~Install =>
        \A u \in Urls :
            cache'[u] # cache[u] =>
                \E e \in EvSlots :
                    /\ ev[e].req.url = u /\ ev[e].req.method = "GET" /\ ~IsApi(u)
                    /\ ev[e].req.scheme \in {"http", "https"}
                    /\ cache'[u] = ev[e].net
                    /\ ev[e].net.ok /\ ev[e].net.status = 200 /\ ev[e].net.type # "opaque"

\* C12: the fetch handler writes into the cache only responses to GET
\* requests whose path does not start with /api/, and only responses that
\* were ok with status 200 and not opaque; it caches nothing else.
C12_OnlyGoodStaticCached == [](C12_Entries) /\ [][C12_Step]_vars

\* the handler has stored the response of a request that had no entry, after
\* which the cache holds it
C12_Witness ==
    \E e \in EvSlots :
        /\ Route(ev[e].req) = "swr" /\ ev[e].pc = "done"
        /\ ev[e].cached = NoResp
        /\ ev[e].net.ok /\ ev[e].net.status = 200
        /\ cache[ev[e].req.url] = ev[e].net

\* C13: for every request the worker handles (one it calls respondWith
\* for), the promise given to respondWith has resolved to a Response object
\* once the event is settled, also when the fetch failed and the cache holds
\* nothing for the request.
C13_AlwaysAResponse ==
    \A e \in EvSlots :
        (Route(ev[e].req) \in {"range", "nav", "swr"} /\ ev[e].pc \in {"put", "done"})
            => ev[e].answer.type \notin {"undefined", "rejected"}

(***************************************************************************)
(* Notification views: properties                                          *)
(***************************************************************************)
\* the step ends mark-read operation m of the mounted view
MarkEnds(m) == mounted' /\ marks[m].pc # "idle" /\ marks'[m].pc = "idle"
MarkFails(m) == MarkEnds(m) /\ lastMark'.out \in {"http", "net"}
ShownUnread(rows, ids) == \A i \in 1..Len(rows) : rows[i].id \in ids => ~rows[i].read

\* C2 as stated: when the request behind an optimistic mark-one or mark-all
\* fails, by a network error or by a non-2xx response, the affected
\* notifications are shown unread again, as before the change.
C2_RollbackOnAnyFailure ==
    [][\A m \in MarkSlots : MarkFails(m) => ShownUnread(notifs', marks[m].ids)]_vars

\* C2 amended: only the single mark-as-read of Notifications.jsx, and only on
\* a network error, sets the read flag back to false; every other failed
\* operation ends with the list left exactly as it was.
C2_RevertOnlyPageNetError ==
    [][\A m \in MarkSlots :
          MarkFails(m) =>
              IF comp = "page" /\ marks[m].kind = "one" /\ lastMark'.out = "net"
              THEN notifs' = SetRead(notifs, marks[m].ids, FALSE)
                   /\ ShownUnread(notifs', marks[m].ids)
              ELSE notifs' = notifs]_vars

\* a single mark in Notifications.jsx ended by a network error, its row unread again
C2_Witness ==
    /\ comp = "page" /\ mounted
    /\ lastMark = [kind |-> "one", out |-> "net"]
    /\ UnreadIds(notifs) # {}

C3_Fallback ==
    (mounted /\ esState[inst] = "closed") =>
        /\ pollRef[inst] # 0
        /\ timers[pollRef[inst]] = [iv |-> PollDefault, view |-> inst]
C3_StreamFailed == mounted /\ esState[inst] = "closed"
C3_Reloading == ~mounted \/ \E l \in LoadSlots : loads[l].pc # "idle"

\* C3: while a view is mounted, an error on its event stream leaves the
\* stream closed and a 20-second polling timer running, and from then on a
\* reload of the list is started again and again until the view unmounts.
C3_PollingAfterStreamError == [](C3_Fallback) /\ (C3_StreamFailed ~> C3_Reloading)

\* the stream has failed, the 20-second timer runs and a reload is in flight
C3_Witness ==
    /\ mounted /\ esState[inst] = "closed"
    /\ pollRef[inst] # 0 /\ timers[pollRef[inst]].iv = PollDefault
    /\ \E l \in LoadSlots : loads[l].pc = "sent"

\* C7: a notification the user marked as read, whose request succeeded, is
\* not shown unread again while the view stays mounted.
C7_StaysRead ==
    \A i \in 1..Len(notifs) : notifs[i].id \in acked => notifs[i].read

Unmounted(v) == v <= inst /\ ~(mounted /\ v = inst)
ActiveTimers(v) == {t \in TimerIds : timers[t].iv # 0 /\ timers[t].view = v}

C8_SignedOutStaysCleared ==
    signedOut => (user = "" /\ lsUser = "" /\ lsEmail = "")

(***************************************************************************)
(* Lead drawer and team tab: properties                                    *)
(***************************************************************************)
LeadShown(field) == IF field = "reminders" THEN reminders ELSE updates
LeadOpStarts(o) == leadOps[o].pc = "idle" /\ leadOps'[o].pc # "idle"
LeadOpFails(o) == leadOps[o].pc # "failed" /\ leadOps'[o].pc = "failed"
TeamOpStarts(o) == teamOps[o].pc = "idle" /\ teamOps'[o].pc # "idle"
TeamOpFails(o) == teamOps[o].pc # "failed" /\ teamOps'[o].pc = "failed"

C4_Lead ==
    \A o \in LeadOpSlots :
        \* the operation remembers the list shown before its change ...
        /\ LeadOpStarts(o) => leadOps'[o].prev = LeadShown(leadOps'[o].field)
        \* ... and its failure puts exactly that list back and sets the error
        /\ LeadOpFails(o) =>
               /\ leadOps[o].field = "reminders" => reminders' = leadOps[o].prev
               /\ leadOps[o].field = "updates" => updates' = leadOps[o].prev
               /\ err' # ""

C4_Team ==
    \A o \in TeamOpSlots :
        /\ TeamOpStarts(o) => teamOps'[o].prev = members
        /\ TeamOpFails(o) => (members' = teamOps[o].prev /\ error' # "")

\* C4: when persisting an optimistic change of a lead's reminders or notes,
\* or of a team member's role or membership, fails, the step that handles the
\* failure sets the shown list to exactly the list that was shown before that
\* change and sets a non-empty error message.
C4_RollbackToPrevious == [][C4_Lead /\ C4_Team]_vars

\* a member's removal failed after the change was shown: the member is back
\* in the list and the error is set
C4_Witness ==
    \E o \in TeamOpSlots :
        /\ teamOps[o].pc = "failed" /\ teamOps[o].kind = "remove"
        /\ members = teamOps[o].prev /\ teamOps[o].email \in Shown(members)
        /\ error # ""

\* C9: when two lead saves have both completed, and no other save was made,
\* the lead stored on the server holds both changes, that is, the reminders
\* and the notes the drawer shows.
C9_BothSavesTakeEffect ==
    (\A o \in LeadOpSlots : leadOps[o].pc = "done" \/ (o > 2 /\ leadOps[o].pc = "idle"))
        => (srvLead.reminders = reminders /\ srvLead.updates = updates)

(***************************************************************************)
(* Tags control: properties                                                *)
(***************************************************************************)
\* C5: a step taken while the control is disabled or readOnly calls onChange
\* no further time and leaves the selection as it is.
C5_LockedNeverCallsOnChange ==
    [][(disabled \/ readOnly) =>
          (onChangeCalls' = onChangeCalls /\ selected' = selected)]_vars

\* a toggle of a readOnly control, whose chips are not disabled, has returned
C5_Witness ==
    /\ readOnly /\ ~disabled
    /\ lastToggle = "returned"
    /\ onChangeCalls > 0

(***************************************************************************)
(* Leads dashboard: properties                                             *)
(***************************************************************************)
\* C6: once the effects of the latest render have run, the focus index lies
\* between -1 and the number of filtered leads minus 1.
C6_FocusIndexInRange ==
    ~effectsPending => (-1 <= focusIndex /\ focusIndex <= filteredLen - 1)

\* the list shrank below the focused row and the bounds effect moved the
\* focus to the last row
C6_Witness ==
    /\ ~effectsPending /\ clamped
    /\ filteredLen > 0 /\ focusIndex = filteredLen - 1

(***************************************************************************)
(* Notification rows in full: properties                                   *)
(***************************************************************************)
NoTwoAlike(rows) ==
    \A i, j \in 1..Len(rows) : i # j => RowIdent(rows[i]) # RowIdent(rows[j])
NewestFirst(rows) ==
    \A i \in 1..(Len(rows) - 1) :
        safeDate(rows[i].timestamp) >= safeDate(rows[i + 1].timestamp)

\* C11: after any sequence of list loads and stream messages, no two rows of
\* the list have the same identifier and the rows are ordered by timestamp
\* from newest to oldest.
C11_UniqueAndNewestFirst == NoTwoAlike(fullList) /\ NewestFirst(fullList)

====
